---- MODULE Spec2Model ----
(***************************************************************************)
(* A model of progress/__init__.py: the moving-window rate estimator       *)
(* (class Infinite), its bounded variant (class Progress) and the          *)
(* generators Infinite.iter / Progress.iter that wrap an iterable.         *)
(*                                                                         *)
(* Time is counted in integer ticks; time() is an input of every call      *)
(* that reads the clock and never runs backwards.  avg is kept as the      *)
(* pair [num, den] of the two integers the code divides; progress,         *)
(* percent and eta are computed in binary64 arithmetic, as Python does.    *)
(***************************************************************************)
EXTENDS Integers, Sequences, FiniteSets

\* ------------------------------------------------------------------ bounds

\* Largest clock reading, in ticks.
MaxTime == 5
\* Largest number of next() calls in one run (direct, via goto, via iter).
MaxCalls == 4
\* Largest number of elements of a wrapped source.
MaxLen == 2
\* Largest number of direct next()/goto() calls in a run with a generator.
MaxDirect == 1
\* Largest number of start() calls in one run.
MaxStarts == 1

\* ------------------------------------------------------------------ inputs

\* Values of the class attributes sma_window / sma_delta an instance may
\* be constructed with (keyword arguments of __init__), delta in ticks.
SmaWindows == {0, 1, 2}
SmaDeltas == {1, 2}
\* Values of the keyword argument max of Progress.__init__; 100 is the default.
DefaultMax == 100
Maxes == {0, 2, DefaultMax}
\* Arguments of direct next(n) calls and of goto(index) calls.
Increments == {0, 1, 2}
Targets == {0, 1, 3}
\* The elements a wrapped source delivers, in order.
Alphabet == <<"a", "b", "c", "d">>
\* What len(it) does for a source: returns its length, raises TypeError
\* (no __len__), or raises another exception.
LenKinds == {"sized", "unsized", "len_raises"}

VARIABLES
    cls,          \* "Infinite" or "Progress": the class of the instance
    sma_window,   \* self.sma_window
    sma_delta,    \* self.sma_delta
    max,          \* self.max (Progress only; 0 and never read for Infinite)
    index,        \* self.index
    _ts,          \* self._ts: the last clock reading
    _dt,          \* self._dt: the deque of buckets [t, n], oldest first
    _in_window,   \* self._in_window
    calls,        \* history: number of next() calls made so far
    total,        \* history: sum of the arguments n of those calls
    iter_calls,   \* history: how many of those calls the generator made
    burst,        \* history: every call so far was next(1), and no time
                  \*          elapsed between one call and the next
    nonneg,       \* history: no call so far had a negative argument n
    updates,      \* history: number of update() hook invocations
    seen,         \* history: what the last update() invocation found in
                  \*          self, as a sequence of at most one record
    starts,       \* history: number of start() calls made so far
    raised,       \* history: the exception the last read of a property
                  \*          raised, "none" when it returned a value
    gen_pc,       \* position of the generator made by iter(it)
    it,           \* the wrapped source: [kind, elems, failAt]
    delivered,    \* history: the elements the generator has yielded
    finishes,     \* history: number of finish() invocations by the generator
    cause         \* history: how the generator ended

vars == <<cls, sma_window, sma_delta, max, index, _ts, _dt, _in_window,
          calls, total, iter_calls, burst, nonneg, updates, seen, starts,
          raised, gen_pc,
          it, delivered, finishes, cause>>

config == <<cls, sma_window, sma_delta>>
estimator == <<index, _ts, _dt, _in_window, calls, total, iter_calls, burst,
               nonneg,
               updates, seen, starts, raised>>
generator == <<gen_pc, it, delivered, finishes, cause>>

\* ------------------------------------------------------------------ helpers

RECURSIVE SumN(_)
\* Sum of the 'n' fields of a sequence of records.
SumN(s) == IF s = <<>> THEN 0 ELSE Head(s).n + SumN(Tail(s))

\* A rational value num/den, den > 0.
Rat(num, den) == IF den < 0 THEN [num |-> -num, den |-> -den]
                 ELSE [num |-> num, den |-> den]
RatEq(a, b) == a.num * b.den = b.num * a.den
RatLe(a, b) == a.num * b.den <= b.num * a.den

\* The result of evaluating a property: a value, or a raised exception.
Value(r) == [kind |-> "value", val |-> r]
Raised(e) == [kind |-> e, val |-> Rat(0, 1)]

\* ------------------------------------------------------------------ floats
\* Python's float is the IEEE 754 binary64 format.  A non-negative finite
\* double is written [m, e]: the natural number m scaled by 2^e, with m
\* of at most 53 bits.  A natural number is a sequence of 13-bit limbs,
\* lowest limb first, with no leading zero limb.

\* Bits in a limb, and the limb base.
LimbBits == 13
Base == 2^LimbBits

RECURSIVE LNorm(_)
\* A limb sequence without its leading (highest, last) zeros.
LNorm(a) ==
    IF a = <<>> THEN <<>>
    ELSE IF a[Len(a)] = 0 THEN LNorm(SubSeq(a, 1, Len(a) - 1))
    ELSE a

RECURSIVE LFromNat(_)
\* The limbs of a natural number.
LFromNat(n) == IF n = 0 THEN <<>> ELSE <<n % Base>> \o LFromNat(n \div Base)

RECURSIVE LAddC(_, _, _)
\* a + b + c, c a carry.
LAddC(a, b, c) ==
    IF a = <<>> /\ b = <<>> THEN LFromNat(c)
    ELSE LET x == IF a = <<>> THEN 0 ELSE Head(a)
             y == IF b = <<>> THEN 0 ELSE Head(b)
             s == x + y + c
         IN  <<s % Base>> \o LAddC(IF a = <<>> THEN a ELSE Tail(a),
                                   IF b = <<>> THEN b ELSE Tail(b),
                                   s \div Base)

RECURSIVE LSubC(_, _, _)
\* a - b - c for a >= b + c, c a borrow; leading zeros not removed.
LSubC(a, b, c) ==
    IF a = <<>> THEN <<>>
    ELSE LET y == IF b = <<>> THEN 0 ELSE Head(b)
             d == Head(a) - y - c
         IN  <<d % Base>> \o LSubC(Tail(a), IF b = <<>> THEN b ELSE Tail(b),
                                   IF d < 0 THEN 1 ELSE 0)

RECURSIVE LCmpAt(_, _, _)
\* Compares two limb sequences of one length from limb i down: -1, 0, 1.
LCmpAt(a, b, i) ==
    IF i = 0 THEN 0
    ELSE IF a[i] # b[i] THEN (IF a[i] < b[i] THEN -1 ELSE 1)
    ELSE LCmpAt(a, b, i - 1)

\* Compares two natural numbers: -1, 0 or 1.
LCmp(a, b) ==
    IF Len(a) # Len(b) THEN (IF Len(a) < Len(b) THEN -1 ELSE 1)
    ELSE LCmpAt(a, b, Len(a))

\* |a - b|.
LDist(a, b) ==
    IF LCmp(a, b) < 0 THEN LNorm(LSubC(b, a, 0)) ELSE LNorm(LSubC(a, b, 0))

RECURSIVE LMulC(_, _, _)
\* a * n + c for a small natural number n.
LMulC(a, n, c) ==
    IF a = <<>> THEN LFromNat(c)
    ELSE LET p == Head(a) * n + c IN
         <<p % Base>> \o LMulC(Tail(a), n, p \div Base)

LMulNat(a, n) == LNorm(LMulC(a, n, 0))

\* a * 2^k.
LShl(a, k) ==
    IF a = <<>> THEN <<>>
    ELSE [i \in 1..(k \div LimbBits) |-> 0] \o LMulNat(a, 2^(k % LimbBits))

RECURSIVE LDivNat(_, _, _, _)
\* Long division of the limbs a[1..i] by a small b > 0, highest limb
\* first, with r the remainder so far: [q, r], quotient and remainder.
LDivNat(a, b, i, r) ==
    IF i = 0 THEN [q |-> <<>>, r |-> r]
    ELSE LET x == r * Base + a[i]
             rest == LDivNat(a, b, i - 1, x % b)
         IN  [q |-> Append(rest.q, x \div b), r |-> rest.r]

RECURSIVE BitLenNat(_)
\* The number of bits of a small natural number.
BitLenNat(n) == IF n = 0 THEN 0 ELSE 1 + BitLenNat(n \div 2)

\* The number of bits of a natural number.
BitLen(a) ==
    IF a = <<>> THEN 0
    ELSE LimbBits * (Len(a) - 1) + BitLenNat(a[Len(a)])

\* Bit i (bit 0 the lowest) of a natural number.
Bit(a, i) == (a[(i \div LimbBits) + 1] \div 2^(i % LimbBits)) % 2

\* Is one of the bits 0 .. i-1 of a set?
AnyBitBelow(a, i) ==
    \/ \E j \in 1..(i \div LimbBits) : a[j] # 0
    \/ a[(i \div LimbBits) + 1] % 2^(i % LimbBits) # 0

\* floor(a / 2^k).
LShr(a, k) ==
    LET w == k \div LimbBits
        hi == SubSeq(a, w + 1, Len(a))
    IN  LNorm(LDivNat(hi, 2^(k % LimbBits), Len(hi), 0).q)

\* The number of bits of a double's significand.
MantissaBits == 53

\* The double nearest to m * 2^e: round to nearest, ties to even.
Round53(m, e) ==
    IF BitLen(m) <= MantissaBits THEN [m |-> m, e |-> e]
    ELSE LET k == BitLen(m) - MantissaBits
             kept == LShr(m, k)
             up == Bit(m, k - 1) = 1 /\ (AnyBitBelow(m, k - 1) \/ Bit(m, k) = 1)
             r == IF up THEN LAddC(kept, <<>>, 1) ELSE kept
         IN  IF BitLen(r) > MantissaBits
             THEN [m |-> LShr(r, 1), e |-> e + k + 1]
             ELSE [m |-> r, e |-> e + k]

\* int / int under `from __future__ import division`: the double nearest
\* to a / b, for a >= 0 and b > 0.
FDiv(a, b) ==
    LET n == LShl(LFromNat(a), 5 * LimbBits)
        d == LDivNat(n, b, Len(n), 0)
        sticky == IF d.r = 0 THEN 0 ELSE 1
    IN  Round53(LNorm(LMulC(LNorm(d.q), 2, sticky)), -(5 * LimbBits + 1))

\* float * int: the double nearest to x * n.
FMulNat(x, n) == Round53(LMulNat(x.m, n), x.e)

\* int to float (exact for the numbers used here).
FFromNat(n) == Round53(LFromNat(n), 0)

\* Compares the double x with the rational p / q (p >= 0, q > 0): -1, 0, 1.
FCmpRat(x, p, q) ==
    LCmp(LMulNat(LShl(x.m, IF x.e > 0 THEN x.e ELSE 0), q),
         LShl(LFromNat(p), IF x.e < 0 THEN -x.e ELSE 0))

\* Is |x - p / q| at most (p / q) * 2^-k ?
FNearRat(x, p, q, k) ==
    LET a == LMulNat(LShl(x.m, IF x.e > 0 THEN x.e ELSE 0), q)
        b == LShl(LFromNat(p), IF x.e < 0 THEN -x.e ELSE 0)
    IN  LCmp(LShl(LDist(a, b), k), b) <= 0

RECURSIVE LToNat(_)
\* The (small) natural number a limb sequence stands for.
LToNat(a) == IF a = <<>> THEN 0 ELSE Head(a) + Base * LToNat(Tail(a))

\* int(floor(x)) of a double x >= 0.
FFloor(x) ==
    IF x.m = <<>> THEN 0
    ELSE IF x.e >= 0 THEN LToNat(LShl(x.m, x.e))
    ELSE IF -x.e >= BitLen(x.m) THEN 0
    ELSE LToNat(LShr(x.m, -x.e))

\* int(ceil(x)) of a double x >= 0.
FCeil(x) ==
    IF x.m = <<>> \/ x.e >= 0 THEN FFloor(x)
    ELSE IF -x.e >= BitLen(x.m) THEN 1
    ELSE FFloor(x) + (IF AnyBitBelow(x.m, -x.e) THEN 1 ELSE 0)

\* ------------------------------------------------------------------ Infinite

\* Infinite.__init__ / Progress.__init__ at clock reading 0.
Init ==
    /\ cls \in {"Infinite", "Progress"}
    /\ sma_window \in SmaWindows
    /\ sma_delta \in SmaDeltas
    /\ max \in (IF cls = "Progress" THEN Maxes ELSE {0})
    /\ index = 0
    /\ _ts = 0
    /\ _dt = <<>>
    /\ _in_window = 0
    /\ calls = 0
    /\ total = 0
    /\ iter_calls = 0
    /\ burst = TRUE
    /\ nonneg = TRUE
    /\ updates = 0
    /\ seen = <<>>
    /\ starts = 0
    /\ raised = "none"
    /\ gen_pc = "none"
    /\ it = [kind |-> "unsized", elems |-> <<>>, failAt |-> 0]
    /\ delivered = <<>>
    /\ finishes = 0
    /\ cause = "none"

\* avg without its guard on an empty window (lines 73-74 dropped).
avg_Unguarded ==
    IF Len(_dt) = 0 THEN Raised("IndexError")
    ELSE IF _in_window = 0 THEN Raised("ZeroDivisionError")
    ELSE Value(Rat(_ts - _dt[1].t, _in_window))

\* Infinite.avg
avg ==
    IF _in_window = 0 THEN Value(Rat(0, 1))
    ELSE IF Len(_dt) = 0 THEN Raised("IndexError")
    ELSE Value(Rat(_ts - _dt[1].t, _in_window))

\* The timeout test of line 100 always true: every call opens a bucket.
Coalesces_Never(dt, t) == FALSE

\* The timeout test of line 100 with >= for >.
Coalesces_Strict(dt, t) ==
    /\ Len(dt) > 0
    /\ ~(t >= dt[Len(dt)].t + sma_delta)

\* Lines 98-105 of next(): does the call at time t reuse the newest bucket?
Coalesces(dt, t) ==
    /\ Len(dt) > 0
    /\ ~(t > dt[Len(dt)].t + sma_delta)

\* Lines 97-109 of next(): the deque after the item has been put back.
Appended(dt, t, n) ==
    IF Coalesces(dt, t)
    THEN [dt EXCEPT ![Len(dt)].n = @ + n]
    ELSE Append(dt, [t |-> t, n |-> n])

\* The length test of line 112 off by one.
Evicts_OffByOne(dt) == Len(dt) > sma_window + 1

\* Lines 112-114 of next(): is the oldest bucket dropped?
Evicts(dt) == Len(dt) > sma_window

\* Line 113 with pop() for popleft(): the newest bucket is dropped.
Evicted_Newest(dt) ==
    IF Evicts(dt) THEN SubSeq(dt, 1, Len(dt) - 1) ELSE dt

\* Lines 112-113 of next(): the deque after the eviction step.
Evicted(dt) == IF Evicts(dt) THEN Tail(dt) ELSE dt

\* Line 114 subtracting the evicted count twice.
InWindowAfter_SubtractTwice(dt, w, n) ==
    IF Evicts(dt) THEN (w + n) - 2 * Head(dt).n ELSE w + n

\* Line 114 dropped: the evicted count stays in the sum.
InWindowAfter_NoSubtract(dt, w, n) == w + n

\* Lines 110-114 of next(): _in_window after the call.
InWindowAfter(dt, w, n) == IF Evicts(dt) THEN (w + n) - Head(dt).n ELSE w + n

\* Line 116 counting calls instead of units.
IndexAfter_One(i, n) == i + 1

\* Line 116 of next(): index after the call.
IndexAfter(i, n) == i + n

\* The hook called one line early, before line 116 has assigned the index.
HookSees_StaleIndex(i, ts, dt, w) ==
    [index |-> index, _ts |-> ts, _dt |-> dt, _in_window |-> w]

\* What an update() hook finds in self when it is called with the
\* instance holding index i, clock reading ts, buckets dt and window sum w.
HookSees(i, ts, dt, w) ==
    [index |-> i, _ts |-> ts, _dt |-> dt, _in_window |-> w]

\* self.update(): the hook (a no-op in these classes, lines 85-86) runs.
update(i, ts, dt, w) ==
    /\ updates' = updates + 1
    /\ seen' = <<HookSees(i, ts, dt, w)>>

\* Infinite.next(n) with time() returning t, called by `by`.
next(n, t, by) ==
    /\ t >= _ts
    /\ calls < MaxCalls
    /\ _ts' = t
    /\ LET d == Appended(_dt, t, n) IN
         /\ _dt' = Evicted(d)
         /\ _in_window' = InWindowAfter(d, _in_window, n)
    /\ index' = IndexAfter(index, n)
    /\ update(index', _ts', _dt', _in_window')
    /\ UNCHANGED <<starts, raised>>
    /\ calls' = calls + 1
    /\ total' = total + n
    /\ iter_calls' = IF by = "iter" THEN iter_calls + 1 ELSE iter_calls
    /\ burst' = (burst /\ n = 1 /\ (calls = 0 \/ t = _ts))
    /\ nonneg' = (nonneg /\ n >= 0)

\* A direct call of next(n) by the program that owns the instance.
Next_n ==
    /\ \E n \in Increments, t \in 0..MaxTime : next(n, t, "next")
    /\ UNCHANGED <<config, max, generator>>

\* ------------------------------------------------------------------ Progress

\* Line 157 clamping the increment at 0: goto never moves back.
Incr_Clamped(target, i) == IF target < i THEN 0 ELSE target - i

\* Line 157 with its operands swapped.
Incr_Swapped(target, i) == i - target

\* Line 157 of goto(): incr = index - self.index.
Incr(target, i) == target - i

\* The body of goto(target) with time() returning t.
GotoCall(target, t) == next(Incr(target, index), t, "goto")

\* Progress.goto(index)
goto ==
    /\ cls = "Progress"
    /\ \E target \in Targets, t \in 0..MaxTime : GotoCall(target, t)
    /\ UNCHANGED <<config, max, generator>>

\* Infinite.start (lines 88-89, nothing) and Progress.start (lines 153-154).
start ==
    /\ starts < MaxStarts
    /\ starts' = starts + 1
    /\ IF cls = "Progress"
       THEN update(index, _ts, _dt, _in_window)
       ELSE UNCHANGED <<updates, seen>>
    /\ UNCHANGED <<config, max, generator, index, _ts, _dt, _in_window,
                   calls, total, iter_calls, burst, nonneg, raised>>

\* Line 151 without the clamp at 0.
remaining_Unclamped == max - index

\* Progress.remaining
remaining == IF max - index > 0 THEN max - index ELSE 0

\* max == 0 answered with 0 instead of the division's exception.
ProgressOf_ZeroForZeroMax(i, m) ==
    IF m = 0 THEN Value(FFromNat(0))
    ELSE LET q == FDiv(i, m) IN
         Value(IF FCmpRat(q, 1, 1) < 0 THEN q ELSE FFromNat(1))

\* progress without the min(1, ...) of line 147.
ProgressOf_NoMin(i, m) ==
    IF m = 0 THEN Raised("ZeroDivisionError") ELSE Value(FDiv(i, m))

\* Line 147: min(1, index / max) for index i >= 0 and max m >= 0.
ProgressOf(i, m) ==
    IF m = 0 THEN Raised("ZeroDivisionError")
    ELSE LET q == FDiv(i, m) IN
         Value(IF FCmpRat(q, 1, 1) < 0 THEN q ELSE FFromNat(1))

\* Line 143: progress * 100.
PercentOf(i, m) ==
    LET p == ProgressOf(i, m) IN
    IF p.kind # "value" THEN p ELSE Value(FMulNat(p.val, 100))

\* The values of index and max that runs within the bounds reach.
Indexes == 0..(3 * MaxCalls)
MaxValues == Maxes \cup 0..MaxLen

\* progress and percent, tabulated over those values.
ProgressTable == [i \in Indexes, m \in MaxValues |-> ProgressOf(i, m)]
PercentTable == [i \in Indexes, m \in MaxValues |-> PercentOf(i, m)]

\* Progress.progress
progress ==
    IF <<index, max>> \in DOMAIN ProgressTable
    THEN ProgressTable[index, max] ELSE ProgressOf(index, max)

\* Progress.percent
percent ==
    IF <<index, max>> \in DOMAIN PercentTable
    THEN PercentTable[index, max] ELSE PercentOf(index, max)

\* The properties of lines 141-151.
Props == {"progress", "percent", "remaining"}

\* Evaluating the getter of property p.
Getter(p) ==
    CASE p = "progress" -> progress
      [] p = "percent" -> percent
      [] p = "remaining" -> Value(FFromNat(remaining))

\* The program reads a property of a Progress instance: the getter
\* returns or raises, and assigns nothing (lines 141-151).
Read ==
    /\ cls = "Progress"
    /\ \E p \in Props :
          raised' = (IF Getter(p).kind = "value" THEN "none" ELSE Getter(p).kind)
    /\ UNCHANGED <<config, max, generator, index, _ts, _dt, _in_window,
                   calls, total, iter_calls, burst, nonneg, updates, seen,
                   starts>>

\* Line 135: int(ceil(a * r)) for a = num / den (den > 0) and an int r >= 0;
\* the quotient and the product are each rounded to a double.
EtaOf(num, den, r) ==
    IF num >= 0 THEN FCeil(FMulNat(FDiv(num, den), r))
    ELSE -FFloor(FMulNat(FDiv(-num, den), r))

\* Progress.eta
eta ==
    LET a == avg IN
    IF a.kind # "value" THEN a ELSE Value(EtaOf(a.val.num, a.val.den, remaining))

\* Progress.iter without lines 161-164.
MaxAfterLen_Ignored(src, m) == m

\* Lines 161-164 of Progress.iter: self.max after the len(it) attempt.
MaxAfterLen(src, m) == IF src.kind = "sized" THEN Len(src.elems) ELSE m

\* ------------------------------------------------------------------ iter

\* The sources a generator may wrap: the first L elements of Alphabet;
\* failAt = k > 0 makes the k-th fetch from the source raise.
Sources ==
    { [kind |-> k, elems |-> SubSeq(Alphabet, 1, L), failAt |-> f] :
        k \in LenKinds, L \in 0..MaxLen, f \in 0..(MaxLen + 1) }

\* The loop ending one element early.
Fetch_SkipLast(src, k) ==
    IF src.failAt = k + 1 THEN "raise"
    ELSE IF k + 1 < Len(src.elems) THEN "yield"
    ELSE "stop"

\* `for x in it`: what fetching the next element does after k elements.
Fetch(src, k) ==
    IF src.failAt = k + 1 THEN "raise"
    ELSE IF k < Len(src.elems) THEN "yield"
    ELSE "stop"

\* `yield x`: the value handed to the consumer for the k-th element.
Yielded(src, k) == src.elems[k]

\* iter without its try/finally: finish() is never reached.
Finally_Missing(f) == f

\* The finally clause of iter: the finish() count after it has run.
Finally(f) == f + 1

\* The call self.iter(it): makes the generator; its body has not run yet.
iter ==
    /\ gen_pc = "none"
    /\ \E src \in Sources :
         /\ src.failAt <= Len(src.elems) + 1
         /\ it' = src
    /\ gen_pc' = "created"
    /\ UNCHANGED <<config, max, estimator, delivered, finishes, cause>>

\* The loop of iter from the fetch of the next element up to the next
\* yield, or through the finally clause when the loop ends.
Loop ==
    LET k == Len(delivered) IN
    CASE Fetch(it, k) = "yield" ->
           /\ delivered' = Append(delivered, Yielded(it, k + 1))
           /\ gen_pc' = "suspended"
           /\ UNCHANGED <<finishes, cause>>
      [] Fetch(it, k) = "stop" ->
           /\ finishes' = Finally(finishes)
           /\ gen_pc' = "done"
           /\ cause' = "exhausted"
           /\ UNCHANGED delivered
      [] Fetch(it, k) = "raise" ->
           /\ finishes' = Finally(finishes)
           /\ gen_pc' = "done"
           /\ cause' = "source_raised"
           /\ UNCHANGED delivered

\* The consumer's first next(gen): the body runs from its first line to
\* the first yield (or to its end).
GenStart ==
    /\ gen_pc = "created"
    /\ IF cls = "Progress" /\ it.kind = "len_raises"
       THEN /\ gen_pc' = "done"
            /\ cause' = "len_raised"
            /\ UNCHANGED <<max, delivered, finishes>>
       ELSE /\ max' = (IF cls = "Progress" THEN MaxAfterLen(it, max) ELSE max)
            /\ Loop
    /\ UNCHANGED <<config, estimator, it>>

\* The consumer's later next(gen): the body resumes after the yield,
\* calls self.next() and goes round the loop.  The update hook that
\* next() ends with is a subclass's code and may raise.
GenResume ==
    /\ gen_pc = "suspended"
    /\ \E t \in 0..MaxTime : next(1, t, "iter")
    /\ \E hook_raises \in BOOLEAN :
         IF hook_raises
         THEN /\ finishes' = Finally(finishes)
              /\ gen_pc' = "done"
              /\ cause' = "next_raised"
              /\ UNCHANGED delivered
         ELSE Loop
    /\ UNCHANGED <<config, max, it>>

\* The consumer stops early: gen.close(), or the generator is collected.
\* GeneratorExit is raised at the yield; an unstarted body never runs.
GenClose ==
    /\ \/ /\ gen_pc = "suspended"
          /\ finishes' = Finally(finishes)
          /\ cause' = "closed"
       \/ /\ gen_pc = "created"
          /\ cause' = "closed_unstarted"
          /\ UNCHANGED finishes
    /\ gen_pc' = "done"
    /\ UNCHANGED <<config, max, estimator, it, delivered>>

\* ------------------------------------------------------------------ specs

\* The estimator driven directly, by next(n) and goto(index).
Next == Next_n \/ goto \/ start

Spec == Init /\ [][Next]_vars

\* Direct calls by the owner of the instance before, between and after
\* the steps of the generator.
Direct ==
    /\ calls - iter_calls < MaxDirect
    /\ (Next_n \/ goto)

\* The estimator driven by the generator that wraps a source.
NextIter == Direct \/ iter \/ GenStart \/ GenResume \/ GenClose

SpecIter == Init /\ [][NextIter]_vars

\* Runs of a Progress instance with reads of its properties in between.
\* The getters of lines 141-151 read neither sma_window nor sma_delta, so
\* one window configuration is followed.
InitRead == Init /\ cls = "Progress" /\ sma_window = 2 /\ sma_delta = 1
NextRead == NextIter \/ Read
SpecRead == InitRead /\ [][NextRead]_vars

\* ------------------------------------------------------------------ claims

\* C1: in every reachable state _in_window is the sum of the counts of the
\* buckets held in _dt, also right after a coalescing or an evicting call.
C1_InWindowIsBucketSum == _in_window = SumN(_dt)

\* A full window of non-empty buckets after a non-empty bucket was evicted
\* and a later call coalesced into the newest bucket.
C1_Witness ==
    /\ Len(_dt) = 2
    /\ _in_window # index
    /\ _dt[1].n > 0
    /\ _dt[2].t < _ts

\* C2: after every next(n) call the number of buckets is at most sma_window.
C2_BucketCountBounded == Len(_dt) <= sma_window

\* The window is full and more calls were made than it has room for.
C2_Witness ==
    /\ sma_window >= 1
    /\ Len(_dt) = sma_window
    /\ calls > sma_window
    /\ _dt[1].t > 0

\* C3: the averaging span _ts - _dt[0]['t'] is at most
\* sma_window * sma_delta in every reachable state.
C3_SpanWithinWindow ==
    Len(_dt) > 0 => _ts - _dt[1].t <= sma_window * sma_delta

\* C4: whenever _in_window is non-zero (and the span is non-zero, so that
\* the quotient exists), avg is _in_window / (_ts - _dt[0]['t']).
C4_AvgIsUnitsPerSecond ==
    (_in_window # 0 /\ Len(_dt) > 0 /\ _ts # _dt[1].t) =>
        /\ avg.kind = "value"
        /\ RatEq(avg.val, Rat(_in_window, _ts - _dt[1].t))

\* C5: evaluating avg never raises, and it is 0 whenever _in_window is 0.
C5_AvgTotal ==
    /\ avg.kind = "value"
    /\ _in_window = 0 => RatEq(avg.val, Rat(0, 1))

\* The window sum is back at 0 while buckets spanning a non-zero time are
\* still held.
C5_Witness ==
    /\ _in_window = 0
    /\ Len(_dt) > 0
    /\ _ts > _dt[1].t
    /\ calls >= 2

\* C6: index is the sum of the arguments of all next() calls made so far,
\* whatever their times, coalescing and evictions.
C6_IndexIsSumOfIncrements == index = total

\* Several calls at different times, some of whose units left the window.
C6_Witness ==
    /\ calls >= 3
    /\ index >= 3
    /\ _in_window < index
    /\ Len(_dt) >= 1
    /\ _dt[1].t > 0

\* The call that a step makes, read off the history.
CallMade == calls' = calls + 1
CallN == total' - total
CallT == _ts'

\* C7, a call on a non-empty deque: it adds n to the newest bucket, keeping
\* the bucket's timestamp, the other buckets and the bucket count, exactly
\* when t <= newest.t + sma_delta; otherwise the newest bucket becomes
\* {t, n} and the buckets before it are the old ones, unchanged (less the
\* oldest when it is evicted).
C7_Step ==
    (CallMade /\ Len(_dt) > 0) =>
        LET newest == _dt[Len(_dt)]
            older == SubSeq(_dt', 1, Len(_dt') - 1)
        IN  IF CallT <= newest.t + sma_delta
            THEN /\ Len(_dt') = Len(_dt)
                 /\ older = SubSeq(_dt, 1, Len(_dt) - 1)
                 /\ _dt'[Len(_dt')] = [t |-> newest.t, n |-> newest.n + CallN]
            ELSE /\ Len(_dt') >= 1
                 /\ _dt'[Len(_dt')] = [t |-> CallT, n |-> CallN]
                 /\ older \in {_dt, Tail(_dt)}

\* C7, the consequence: next(1) calls with no time between them leave one
\* bucket, and _in_window is the number of calls (sma_window >= 1).
C7_Burst ==
    (burst /\ calls >= 1 /\ sma_window >= 1) =>
        (Len(_dt) = 1 /\ _in_window = calls)

\* C7: a next(n) call coalesces into the newest bucket exactly when it is
\* made within sma_delta of that bucket's timestamp, and opens a new
\* bucket otherwise; a burst of next(1) calls leaves a single bucket.
C7_CoalesceOrAppend == [][C7_Step]_vars /\ []C7_Burst

\* A second bucket was opened, and the last call, made exactly sma_delta
\* after it, was added to it.
C7_Witness ==
    /\ Len(_dt) = 2
    /\ _ts = _dt[2].t + sma_delta
    /\ _dt[2].n >= 2

\* The ways an iteration that has started can end.
Endings == {"exhausted", "source_raised", "next_raised", "closed"}

\* C8: the generator calls finish() exactly once on each way a started
\* iteration ends (source exhausted, source raises, next() raises, the
\* generator is closed), and never while it is still delivering.
C8_FinishExactlyOnce ==
    /\ finishes <= 1
    /\ gen_pc # "done" => finishes = 0
    /\ (gen_pc = "done" /\ cause \in Endings) => finishes = 1

\* The consumer took an element, resumed, and closed the generator at the
\* next element.
C8_Witness ==
    /\ gen_pc = "done"
    /\ cause = "closed"
    /\ Len(delivered) = 2
    /\ finishes = 1

\* The number of elements the consumer has resumed from.
Resumed ==
    IF gen_pc = "suspended" \/ cause = "closed"
    THEN Len(delivered) - 1
    ELSE Len(delivered)

\* C9: wrapping a source with a fresh estimator delivers the source's
\* elements unchanged and in order; while the consumer holds the k-th
\* element index is k-1; after full consumption index is the length L
\* (and percent is 100 for Progress with a known length L > 0); next() is
\* called once per element resumed from.
C9_PassThroughAndCount ==
    (calls = iter_calls) =>
        /\ delivered = SubSeq(it.elems, 1, Len(delivered))
        /\ gen_pc = "suspended" => index = Len(delivered) - 1
        /\ (gen_pc = "done" /\ cause = "exhausted") =>
              /\ delivered = it.elems
              /\ index = Len(it.elems)
              /\ (cls = "Progress" /\ it.kind = "sized" /\ Len(it.elems) > 0) =>
                    /\ percent.kind = "value"
                    /\ FCmpRat(percent.val, 100, 1) = 0
        /\ calls = Resumed

\* A Progress instance has delivered a two-element sized source in full.
C9_Witness ==
    /\ calls = iter_calls
    /\ cls = "Progress"
    /\ it.kind = "sized"
    /\ gen_pc = "done"
    /\ cause = "exhausted"
    /\ delivered = <<"a", "b">>

\* The step in which the body of Progress.iter runs its len(it) attempt.
LenStep ==
    /\ cls = "Progress"
    /\ gen_pc = "created"
    /\ gen_pc' # "created"
    /\ cause' # "closed_unstarted"

\* C10: Progress.iter sets max to the length of a source that has one,
\* before the first element is yielded and before any next() call of the
\* iteration, and leaves max alone for a source without a length; the
\* step changes none of index, _in_window and the buckets.
C10_MaxFromLen ==
    [][LenStep =>
         /\ it.kind = "sized" => max' = Len(it.elems)
         /\ it.kind = "unsized" => max' = max
         /\ calls' = calls
         /\ index' = index
         /\ _in_window' = _in_window
         /\ _dt' = _dt]_vars

\* An estimator that was already in use wraps a one-element sized source:
\* the first element is with the consumer, no next() call of the
\* iteration has been made, and max is already 1.
C10_Witness ==
    /\ cls = "Progress"
    /\ it.kind = "sized"
    /\ gen_pc = "suspended"
    /\ Len(delivered) = 1
    /\ iter_calls = 0
    /\ Len(_dt) = 1
    /\ _in_window > 0
    /\ max = 1

\* The count of the bucket that a call next(n) at time t evicts, 0 when
\* it evicts none.
EvictedCount(n, t) ==
    LET d == Appended(_dt, t, n) IN
    IF Len(d) > sma_window THEN d[1].n ELSE 0

\* C11 as claimed, for a target below index: index and _in_window both
\* decrease by the same amount.
C11_SameDecrease ==
    [][\A target \in Targets, t \in 0..MaxTime :
         (cls = "Progress" /\ target < index /\ GotoCall(target, t)) =>
             /\ index' = target
             /\ _in_window - _in_window' = index - index']_vars

\* C11, amended: a step goto(target) at time t is a step next(target - index)
\* at time t (same index, _in_window, buckets, one update-hook call) and
\* leaves index == target, also for a target below index; _in_window
\* changes by target - index less the count of the bucket the call
\* evicts, with no clamping at 0.
C11_GotoIsNext ==
    [][\A target \in Targets, t \in 0..MaxTime :
         (cls = "Progress" /\ GotoCall(target, t)) =>
             /\ next(target - index, t, "next")
             /\ index' = target
             /\ updates' = updates + 1
             /\ _in_window' =
                  (_in_window + (target - index)) - EvictedCount(target - index, t)]_vars

\* A goto back to 0 that opened a bucket and evicted a counted one: the
\* window sum is negative.
C11_Witness ==
    /\ cls = "Progress"
    /\ index = 0
    /\ _in_window < 0
    /\ Len(_dt) >= 1
    /\ _dt[Len(_dt)].t = _ts

\* C12 as claimed: no step lowers index.
C12_IndexNeverDecreases == [][index' >= index]_vars

\* C12, amended: index is non-decreasing over every next(n) with n >= 0
\* and every step of a wrapped iteration; only a goto(target) with
\* target < index lowers it.
C12_IndexMonotoneButGotoBack ==
    [][\/ index' >= index
       \/ \E target \in Targets, t \in 0..MaxTime :
            target < index /\ GotoCall(target, t) /\ index' = target]_vars

\* The generator and a direct call have both raised index.
C12_Witness ==
    /\ gen_pc = "done"
    /\ iter_calls >= 2
    /\ calls > iter_calls
    /\ index >= 3

\* C13: for the bounded variant remaining is max(max - index, 0): never
\* negative, 0 exactly when index >= max, and otherwise index + remaining
\* is max, also after max was changed or index overshot it.
C13_Remaining ==
    cls = "Progress" =>
        /\ remaining >= 0
        /\ remaining = 0 <=> index >= max
        /\ index < max => index + remaining = max

\* iter has changed max to 1 and index has gone past it.
C13_Witness ==
    /\ cls = "Progress"
    /\ it.kind = "sized"
    /\ max = 1
    /\ index > max
    /\ remaining = 0

\* C14 as claimed: percent * max == index * 100 below max, percent is 100
\* from max on and never exceeds 100.
C14_PercentExact ==
    (cls = "Progress" /\ max > 0) =>
        /\ percent.kind = "value"
        /\ FCmpRat(percent.val, 100, 1) <= 0
        /\ index >= max => FCmpRat(percent.val, 100, 1) = 0
        /\ index < max => FCmpRat(percent.val, index * 100, max) = 0

\* Is a natural number n >= 1 a power of two?
IsPow2(n) == \E k \in 0..BitLenNat(n) : n = 2^k

\* C14, amended: for max > 0, progress is min(1, index / max) and percent
\* is progress * 100, both in double precision: percent never exceeds
\* 100 and is exactly 100 whenever index >= max; below max, progress is
\* index / max to within a relative error of 2^-53 and percent is
\* index * 100 / max to within a relative error of 2^-51, and it is
\* exactly that when max is a power of two.
C14_PercentRounded ==
    (cls = "Progress" /\ max > 0) =>
        /\ progress.kind = "value"
        /\ percent.kind = "value"
        /\ FCmpRat(percent.val, 100, 1) <= 0
        /\ index >= max =>
              /\ FCmpRat(progress.val, 1, 1) = 0
              /\ FCmpRat(percent.val, 100, 1) = 0
        /\ index < max =>
              /\ FCmpRat(progress.val, 1, 1) < 0
              /\ FNearRat(progress.val, index, max, 53)
              /\ FNearRat(percent.val, index * 100, max, 51)
              /\ IsPow2(max) => FCmpRat(percent.val, index * 100, max) = 0

\* 7 of 100: percent is a double just above 7.
C14_Witness ==
    /\ cls = "Progress"
    /\ max = 100
    /\ index = 7
    /\ FCmpRat(percent.val, 7, 1) > 0

\* ---- C15

\* The least integer >= p / q, for q > 0.
CeilDiv(p, q) == -((-p) \div q)

\* C15: eta is 0 whenever remaining is 0 or the window is empty, and
\* otherwise it is the ceiling of the units-per-second rate
\* _in_window / (_ts - _dt[0]['t']) multiplied by remaining.
C15_EtaFromRate ==
    cls = "Progress" =>
        /\ eta.kind = "value"
        /\ (remaining = 0 \/ _in_window = 0) => eta.val = 0
        /\ (_in_window > 0 /\ Len(_dt) > 0 /\ _ts > _dt[1].t) =>
               eta.val = CeilDiv(_in_window * remaining, _ts - _dt[1].t)

\* ---- C16

\* What a call's step does about eviction: with `held` the buckets after
\* the call's count has been added (to the newest bucket, or as a new
\* bucket), the step drops the head of `held`, and nothing else, exactly
\* when it opened a new bucket while sma_window buckets were retained, and
\* _in_window changes by n less the dropped count.
C16_Step ==
    CallMade =>
        LET coalesced == Len(_dt) > 0 /\ CallT <= _dt[Len(_dt)].t + sma_delta
            held == IF coalesced
                    THEN [_dt EXCEPT ![Len(_dt)].n = @ + CallN]
                    ELSE Append(_dt, [t |-> CallT, n |-> CallN])
        IN  /\ IF ~coalesced /\ Len(_dt) = sma_window
               THEN /\ _dt' = Tail(held)
                    /\ _in_window' = (_in_window + CallN) - Head(held).n
               ELSE /\ _dt' = held
                    /\ _in_window' = _in_window + CallN
            /\ (coalesced /\ sma_window >= 1) => Len(_dt') = Len(_dt)

\* C16: a next(n) call evicts at most one bucket, only when it has opened
\* a new bucket while sma_window buckets were retained; the evicted bucket
\* is the oldest one, _in_window loses exactly its count, and a call that
\* coalesces never evicts.
C16_EvictOldestOnly == [][C16_Step]_vars

\* A full window of two buckets after units have been evicted from it.
C16_Witness ==
    /\ cls = "Infinite"
    /\ sma_window = 2
    /\ Len(_dt) = 2
    /\ _dt[1].n > 0
    /\ index - _in_window > 0

\* ---- C17

\* The step is a start() call.
StartMade == starts' = starts + 1

\* What a hook called on the state after the step would find.
SelfAfter ==
    [index |-> index', _ts |-> _ts', _dt |-> _dt', _in_window |-> _in_window']

C17_Step ==
    /\ CallMade =>
          /\ updates' = updates + 1
          /\ seen' = <<SelfAfter>>
          /\ seen'[1].index = index + CallN
    /\ (StartMade /\ cls = "Progress") =>
          /\ updates' = updates + 1
          /\ seen' = <<SelfAfter>>
          /\ UNCHANGED <<index, _in_window, _ts, _dt>>

\* C17: every next(n) call invokes the update hook exactly once, after
\* the buckets, _in_window and index have been updated, so the hook finds
\* the new index; Progress.start() invokes the hook exactly once and
\* changes none of index, _in_window, _ts and the buckets.
C17_UpdateHook ==
    /\ [][C17_Step]_vars
    /\ [](updates = calls + (IF cls = "Progress" THEN starts ELSE 0))

\* start() was called on a Progress instance that had already moved, and
\* the hook found the index unchanged.
C17_Witness ==
    /\ cls = "Progress"
    /\ starts = 1
    /\ calls >= 1
    /\ updates = calls + 1
    /\ index > 0
    /\ seen = <<HookSees(index, _ts, _dt, _in_window)>>

\* ---- C18

\* A step on which a read changed the recorded outcome assigns nothing
\* to the instance.
C18_ReadStep ==
    (raised' # raised) => UNCHANGED <<index, _in_window, max, _dt>>

\* A next() call on an instance with max == 0 counts as any other call.
C18_CallStep ==
    (CallMade /\ cls = "Progress" /\ max = 0) =>
        /\ index' = index + CallN
        /\ _in_window' = SumN(_dt')
        /\ max' = 0

\* With max == 0: progress and percent raise or are 1 and 100,
\* remaining is 0, and a started iteration that has ended has called
\* finish() once.
C18_Reads ==
    (cls = "Progress" /\ max = 0) =>
        /\ progress.kind # "value" \/ FCmpRat(progress.val, 1, 1) = 0
        /\ percent.kind # "value" \/ FCmpRat(percent.val, 100, 1) = 0
        /\ Getter("remaining") = Value(FFromNat(0))
        /\ (gen_pc = "done" /\ cause \in Endings) => finishes = 1

\* C18: when max == 0, reading progress or percent raises an error or
\* yields 1 (100 percent); the read leaves index, _in_window, max and the
\* buckets unchanged; remaining, next() and the finish() of a wrapped
\* iteration keep working.
C18_ZeroMax == [][C18_ReadStep /\ C18_CallStep]_vars /\ []C18_Reads

\* An empty sized source was wrapped and consumed, a read has raised, a
\* call has moved the index, and finish() has run.
C18_Witness ==
    /\ cls = "Progress"
    /\ it.kind = "sized"
    /\ it.elems = <<>>
    /\ max = 0
    /\ gen_pc = "done"
    /\ finishes = 1
    /\ raised = "ZeroDivisionError"
    /\ index > 0

\* ---- C19

\* C19: the bucket timestamps increase oldest-first, consecutive buckets
\* lying more than sma_delta apart, and while a bucket is held the last
\* clock reading _ts is at or after the newest bucket's timestamp and at
\* most sma_delta after it, so that _ts - _dt[0]['t'] is never negative.
C19_TimestampOrder ==
    /\ \A i \in 1..(Len(_dt) - 1) : _dt[i + 1].t > _dt[i].t + sma_delta
    /\ Len(_dt) > 0 =>
          /\ _dt[Len(_dt)].t <= _ts
          /\ _ts <= _dt[Len(_dt)].t + sma_delta
          /\ _ts - _dt[1].t >= 0

\* Two buckets as close as they can be, and the last call as late as the
\* newest bucket takes it.
C19_Witness ==
    /\ sma_delta = 2
    /\ Len(_dt) = 2
    /\ _dt[2].t = _dt[1].t + sma_delta + 1
    /\ _ts = _dt[2].t + sma_delta

\* ---- C20

\* C20: as long as no call had a negative n, 0 <= _in_window <= index,
\* no bucket count is negative, and avg and eta are not negative.  (A
\* goto to a lower index after an eviction is what makes _in_window
\* negative: the state C20_Witness describes.)
C20_NonNegative ==
    nonneg =>
        /\ 0 <= _in_window
        /\ _in_window <= index
        /\ \A i \in 1..Len(_dt) : _dt[i].n >= 0
        /\ avg.kind = "value"
        /\ avg.val.num >= 0
        /\ cls = "Progress" => (eta.kind = "value" /\ eta.val >= 0)

\* After units were evicted, a goto to a lower index has left _in_window
\* negative with index >= 0; avg and eta are negative.
C20_Witness ==
    /\ cls = "Progress"
    /\ ~nonneg
    /\ index >= 0
    /\ index - _in_window > 0
    /\ _in_window < 0
    /\ avg.val.num < 0
    /\ eta.val < 0

====
